---- MODULE Spec2Model ----
(***************************************************************************)
(* Production orchestrator of the AdGenius application: the queue          *)
(* processors of the App component and the polling of long-running video   *)
(* operations.                                                             *)
(*                                                                         *)
(* React is modelled as follows.  `queue` is the component state.  Every   *)
(* step is one run to completion of JavaScript: an input event handler, a  *)
(* timer callback or the continuation of an async function after an        *)
(* await.  The functional updates the step enqueues (setQueue(prev => ..)) *)
(* are applied in order, the component re-renders, and the effects of the  *)
(* commit run on the new state, all before the next step: a step is the    *)
(* handler followed by the effects.  What outlives a step is what the      *)
(* code keeps across an await: the captured nextItem / item of an async    *)
(* closure, the refs, the timers and the requests in flight.               *)
(***************************************************************************)
EXTENDS Integers, Sequences, FiniteSets, TLC

\* jobs submitted to src/unnamed/part_011 and to the processPlan App
MaxJobs == 2
\* jobs submitted to src/App.tsx: two of them wait while a third is generated
MaxJobsApp == 3
\* poll requests in flight at a time
MaxInFlight == 1
\* scenes of the plan that AdPlanDisplay renders
MaxScenes == 2
\* poll requests of AdPlanDisplay in flight at a time
MaxScenePolls == 2
\* entries of one renderLogs list that are counted
MaxLogLength == 5
\* poll requests of the AdPlanDisplay of src/App.tsx in flight at a time
MaxCapturedPolls == 1
\* polls counted at a time where the polls of part_011 are counted
MaxPolls == 4

JobIds == 1 .. (IF MaxJobs < MaxJobsApp THEN MaxJobsApp ELSE MaxJobs)

SceneIds == 1 .. MaxScenes

Undefined == "undefined"

VARIABLES
    variant,            \* which App component runs
    queue,              \* useState<BatchItem[]>
    nextId,             \* id of the next submitted ProductData
    processingRef,      \* useRef<boolean> (part_011, processPlan)
    processingId,       \* useState<string | null> (src/App.tsx), 0 for null
    task,               \* per job: position of its processQueue call
    remote,             \* per job: state of the remote video operation
    pollingIntervals,   \* useRef<Record<string, number>>: ids with a timer
    inFlight,           \* per job: pollVideoAdStatus calls awaiting a response
    lastEvent,          \* the step taken last
    scene_map,          \* item.plan.scene_map of the item AdPlanDisplay shows
    renderCall,         \* per scene: position of its handleRenderScene call
    scenePolls,         \* per scene: pollVideoAdStatus calls awaiting a response
    written,            \* per scene: what the updates made for that scene wrote
    withRetryCall,      \* the withRetry call under study: its arguments and position
    display,            \* AdPlanDisplay: what it shows, its live timers, its renderLogs
    captured,           \* src/App.tsx AdPlanDisplay: the plan each pending call and poll closed over
    pollLog             \* history: per job the polls issued, whether one was answered, whether one threw

sceneVars == << scene_map, renderCall, scenePolls, written, display, captured >>

queueVars == << queue, nextId, processingRef, processingId, task,
                remote, pollingIntervals, inFlight >>

vars == << variant, queue, nextId, processingRef, processingId, task,
           remote, pollingIntervals, inFlight, lastEvent,
           scene_map, renderCall, scenePolls, written, display, captured, withRetryCall, pollLog >>

----------------------------------------------------------------------------
(* BatchItem and the array helpers                                         *)

NewItem(id) ==
    [ id |-> id, status |-> "PENDING", error |-> Undefined, plan |-> FALSE,
      operationName |-> 0, videoUrl |-> Undefined, audioUrl |-> Undefined ]

Ids(q) == { q[k].id : k \in DOMAIN q }

Item(q, id) == q[CHOOSE k \in DOMAIN q : q[k].id = id]

\* prev.filter(i => i.id !== id)
FilterOut(q, id) == SelectSeq(q, LAMBDA i : i.id # id)

\* error || i.error
OrElse(error, fallback) ==
    IF error = Undefined \/ error = "" THEN fallback ELSE error

StatusUpdate(i, status, error) ==
    [ i EXCEPT !.status = status, !.error = OrElse(error, i.error) ]

\* an update that drops the item it marks FAILED
updateItemStatusEvicts(q, id, status, error) ==
    IF status = "FAILED"
    THEN FilterOut(q, id)
    ELSE [ k \in DOMAIN q |-> IF q[k].id = id THEN StatusUpdate(q[k], status, error) ELSE q[k] ]

\* setQueue(prev => prev.map(i => i.id === id ? { ...i, status, error: error || i.error } : i))
updateItemStatus(q, id, status, error) ==
    [ k \in DOMAIN q |-> IF q[k].id = id THEN StatusUpdate(q[k], status, error) ELSE q[k] ]

\* the PENDING item submitted last: its id, or 0
FindPendingLast(q) ==
    IF \E k \in DOMAIN q : q[k].status = "PENDING"
    THEN q[CHOOSE k \in DOMAIN q :
             /\ q[k].status = "PENDING"
             /\ \A m \in DOMAIN q : q[m].status = "PENDING" => m <= k].id
    ELSE 0

\* queue.find(item => item.status === 'PENDING'): its id, or 0
FindPending(q) ==
    IF \E k \in DOMAIN q : q[k].status = "PENDING"
    THEN q[CHOOSE k \in DOMAIN q :
             /\ q[k].status = "PENDING"
             /\ \A m \in DOMAIN q : q[m].status = "PENDING" => k <= m].id
    ELSE 0

\* an AdScene of the plan, not rendered yet
NewScene ==
    [ renderStatus |-> Undefined, videoOperation |-> Undefined,
      videoUrl |-> Undefined, audioUrl |-> Undefined ]

IdleCall == [ pc |-> "idle", audioUrl |-> Undefined ]

IdleTask == [ pc |-> "idle", video |-> "none", voice |-> "none" ]

\* lastEvent names the step taken last when it is one of these, for the
\* properties that speak of a step; every other step is recorded as "step"
Noted == { "PollDone", "PollDoneAgain", "handleSelectKey" }

Ev(op, id) == IF op \in Noted THEN [ op |-> op, id |-> id ] ELSE [ op |-> "step", id |-> 0 ]

\* the number of poll requests in flight
RECURSIVE Total(_, _)
Total(fl, n) == IF n = 0 THEN 0 ELSE fl[n] + Total(fl, n - 1)

----------------------------------------------------------------------------
(* Input handlers common to the App variants                               *)

\* handleAddToQueue: setQueue(prev => [...prev, newItem])
handleAddToQueue(q, id) == Append(q, NewItem(id))

\* handleRemoveFromQueue / onRemove: setQueue(prev => prev.filter(i => i.id !== id))
handleRemoveFromQueue(q, id) == FilterOut(q, id)

----------------------------------------------------------------------------
(* src/unnamed/part_011: plan, then render start and voice in parallel,    *)
(* then polling of the video operation by one timer per job                *)

\* a selection that also waits for the items that are POLLING
NextItemAfterPolling(ref, q) ==
    IF ref \/ \E k \in DOMAIN q : q[k].status = "POLLING" THEN 0 ELSE FindPending(q)

\* the selection without the lock
NextItemUnlocked(ref, q) == FindPending(q)

\* if (processingRef.current) return; const nextItem = queue.find(...)
NextItem(ref, q) == IF ref THEN 0 ELSE FindPending(q)

\* setQueue(... plan, status: 'POLLING', result: { videoUrl: '', audioUrl: null, plan })
PlanReady(i) ==
    [ i EXCEPT !.plan = TRUE, !.status = "POLLING", !.videoUrl = "",
               !.audioUrl = "null" ]

\* result: { ...(i.result || { videoUrl: '', audioUrl: null }), audioUrl }
AudioMerge(i, audioUrl) ==
    [ i EXCEPT !.videoUrl = IF i.videoUrl = Undefined THEN "" ELSE i.videoUrl,
               !.audioUrl = audioUrl ]

\* setQueue(... operationName: videoOpName)
HandleMerge(i, videoOpName) == [ i EXCEPT !.operationName = videoOpName ]

\* a voice synthesis whose failure is not caught
generateVoiceoverThrows(outcome) == IF outcome = "ok" THEN "wav" ELSE "throw"

\* generateVoiceover: the URL of the audio, or null when synthesis fails
generateVoiceover(outcome) == IF outcome = "ok" THEN "wav" ELSE "null"

\* pollVideoAdStatus on the state the remote operation reports
pollVideoAdStatus(op) ==
    CASE op = "running" -> [ done |-> FALSE, result |-> Undefined, error |-> Undefined ]
      [] op = "error"   -> [ done |-> TRUE, result |-> Undefined, error |-> "API error" ]
      [] op = "novideo" -> [ done |-> TRUE, result |-> Undefined, error |-> "Video URI missing" ]
      [] op = "nouri"   -> [ done |-> TRUE, result |-> Undefined, error |-> "Video URI missing" ]
      [] op = "ok"      -> [ done |-> TRUE, result |-> "uri?key", error |-> Undefined ]

\* a merge that appends to the result it finds
CompletedMergeAppends(i, videoUrl) ==
    [ i EXCEPT !.status = "COMPLETED",
               !.videoUrl = IF i.videoUrl \in { Undefined, "" } THEN videoUrl ELSE "uri?keyuri?key",
               !.audioUrl = IF i.audioUrl = Undefined THEN "null" ELSE i.audioUrl ]

\* status: 'COMPLETED', result: { ...status.result, audioUrl: i.result?.audioUrl || null }
CompletedMerge(i, videoUrl) ==
    [ i EXCEPT !.status = "COMPLETED", !.videoUrl = videoUrl,
               !.audioUrl = IF i.audioUrl = Undefined THEN "null" ELSE i.audioUrl ]

\* a merge that does not look for the id of the polled item
PollMergeAny(q, id, status) ==
    IF status.result # Undefined
    THEN [ k \in DOMAIN q |-> CompletedMerge(q[k], status.result) ]
    ELSE [ k \in DOMAIN q |-> StatusUpdate(q[k], "FAILED", status.error) ]

\* the merge of a done poll response: setQueue(prev => prev.map(i => i.id === item.id ? ...))
PollMerge(q, id, status) ==
    IF status.result # Undefined
    THEN [ k \in DOMAIN q |-> IF q[k].id = id THEN CompletedMerge(q[k], status.result) ELSE q[k] ]
    ELSE updateItemStatus(q, id, "FAILED", status.error)

\* the items with an operation name, whatever their status
ActiveAnyStatus(q) ==
    { q[k].id : k \in { m \in DOMAIN q : q[m].operationName # 0 } }

\* queue.filter(item => item.status === 'POLLING' && item.operationName)
Active(q) ==
    { q[k].id : k \in { m \in DOMAIN q : q[m].status = "POLLING" /\ q[m].operationName # 0 } }

\* what onRemove does to the timers: nothing, it only filters the queue
OnRemove(intervals, id) == intervals

\* a catch that swallows the error
CatchSwallows(q, id, message) == q

\* catch (error) { updateItemStatus(id, 'FAILED', error.message || "Engine failure") }
Catch(q, id, message) ==
    updateItemStatus(q, id, "FAILED", OrElse(message, "Engine failure"))

\* after Promise.all: setQueue(... operationName: videoOpName)
RenderStarted(q, id) == 
    [ k \in DOMAIN q |-> IF q[k].id = id THEN HandleMerge(q[k], id) ELSE q[k] ]

\* The polls are counted, per job, in the specification that follows them
\* (log.on); there MaxPolls polls at most are counted at a time, elsewhere
\* MaxInFlight polls at most await their response.
MayPoll(log, fl, S) ==
    IF log.on THEN Total(log.calls, MaxJobs) + Cardinality(S) <= MaxPolls
    ELSE Total(fl, MaxJobs) + Cardinality(S) <= MaxInFlight

\* run calls pollVideoAdStatus for the jobs of S
Issued(log, S) ==
    IF log.on
    THEN [ log EXCEPT !.calls = [ j \in JobIds |-> IF j \in S THEN @[j] + 1 ELSE @[j] ] ]
    ELSE log

\* a call for job id is answered (answered[id]), or throws (threw[id])
Answered(log, id, thrown) ==
    IF log.on
    THEN [ log EXCEPT !.answered[id] = IF thrown THEN @ ELSE TRUE,
                      !.threw[id] = IF thrown THEN TRUE ELSE @ ]
    ELSE log

\* a scheduling that does not look for a timer the job already has
UnscheduledAll(q, iv) == Active(q)

\* active.forEach(item => { if (!pollingIntervals.current[item.id]) { ... } })
Unscheduled(q, iv) == Active(q) \ iv

\* pollingIntervals.current[item.id] = window.setInterval(run, 8000), for the
\* jobs of S: log.timers counts the live intervals of each job
Scheduled(log, S) ==
    IF log.on
    THEN [ log EXCEPT !.timers = [ j \in JobIds |-> IF j \in S THEN @[j] + 1 ELSE @[j] ] ]
    ELSE log

\* window.clearInterval(pollingIntervals.current[item.id]): the interval the
\* table holds for the job, if it holds one
Cleared(log, iv, id) ==
    IF log.on /\ id \in iv
    THEN [ log EXCEPT !.timers[id] = @ - 1 ]
    ELSE log

\* The two effects on the state a step leaves: the production pipeline admits
\* the next PENDING item, the polling loop starts a timer (and a first poll)
\* for every active item that has none.
EffectsB(q, ref, tk, iv, fl, log) ==
    LET id == NextItem(ref, q)
        started == Unscheduled(q, iv)
        counted == Scheduled(log, started)
    IN  [ queue |-> IF id = 0 THEN q ELSE updateItemStatus(q, id, "INITIATING", Undefined),
          processingRef |-> (ref \/ id # 0),
          task |-> IF id = 0 THEN tk
                   ELSE [ tk EXCEPT ![id] = [ IdleTask EXCEPT !.pc = "generateAdPlan" ] ],
          pollingIntervals |-> iv \cup started,
          inFlight |-> [ j \in JobIds |->
                           IF j \in started /\ MayPoll(log, fl, started)
                           THEN fl[j] + 1 ELSE fl[j] ],
          pollLog |-> IF MayPoll(log, fl, started) THEN Issued(counted, started) ELSE counted,
          admitted |-> id ]

\* a call whose promises have all settled leaves nothing behind once its item
\* is gone from the queue
Settled(q, tk) ==
    [ j \in JobIds |->
        IF j \notin Ids(q) /\ tk[j].pc = "returned" /\ tk[j].voice # "pending"
        THEN IdleTask ELSE tk[j] ]

\* the job has no timer and no poll left, and is not waiting for one
PollsOver(q, iv, fl, j) ==
    /\ j \notin iv
    /\ fl[j] = 0
    /\ j \in Ids(q) => Item(q, j).status \in { "COMPLETED", "FAILED" }

\* the counts of a job whose polls are over are dropped
Forgotten(log, q, iv, fl) ==
    [ log EXCEPT
        !.calls = [ j \in JobIds |-> IF PollsOver(q, iv, fl, j) THEN 0 ELSE @[j] ],
        !.answered = [ j \in JobIds |-> IF PollsOver(q, iv, fl, j) THEN FALSE ELSE @[j] ],
        !.threw = [ j \in JobIds |-> IF PollsOver(q, iv, fl, j) THEN FALSE ELSE @[j] ] ]

CommitPolls(q, ref, tk, iv, fl, log) ==
    LET e == EffectsB(q, ref, tk, iv, fl, log)
    IN  /\ queue' = e.queue
        /\ processingRef' = e.processingRef
        /\ task' = Settled(e.queue, e.task)
        /\ pollingIntervals' = e.pollingIntervals
        /\ inFlight' = e.inFlight
        /\ pollLog' = Forgotten(e.pollLog, e.queue, e.pollingIntervals, e.inFlight)

CommitB(q, ref, tk, iv, fl) == CommitPolls(q, ref, tk, iv, fl, pollLog)

SubmitB ==
    /\ variant = "part_011"
    /\ nextId <= MaxJobs
    /\ nextId' = nextId + 1
    /\ CommitB(handleAddToQueue(queue, nextId), processingRef, task, pollingIntervals, inFlight)
    /\ lastEvent' = Ev("Submit", nextId)
    /\ UNCHANGED << sceneVars, withRetryCall, variant, remote, processingId >>

RemoveB(id) ==
    /\ variant = "part_011"
    /\ id \in Ids(queue)
    /\ CommitB(handleRemoveFromQueue(queue, id), processingRef, task,
               OnRemove(pollingIntervals, id), inFlight)
    /\ lastEvent' = Ev("Remove", id)
    /\ UNCHANGED << sceneVars, withRetryCall, variant, nextId, remote, processingId >>

\* generateAdPlan resolves
PlanResolve(id) ==
    /\ variant = "part_011"
    /\ task[id].pc = "generateAdPlan"
    /\ CommitB([ k \in DOMAIN queue |-> IF queue[k].id = id THEN PlanReady(queue[k]) ELSE queue[k] ],
               processingRef,
               [ task EXCEPT ![id] = [ pc |-> "PromiseAll", video |-> "pending", voice |-> "pending" ] ],
               pollingIntervals, inFlight)
    /\ lastEvent' = Ev("PlanResolve", id)
    /\ UNCHANGED << sceneVars, withRetryCall, variant, nextId, remote, processingId >>

\* generateAdPlan rejects: catch, then finally { processingRef.current = false }
PlanReject(id) ==
    /\ variant = "part_011"
    /\ task[id].pc = "generateAdPlan"
    /\ \E message \in { "API error", "" } :
          CommitB(Catch(queue, id, message), FALSE,
                  [ task EXCEPT ![id].pc = "returned" ], pollingIntervals, inFlight)
    /\ lastEvent' = Ev("PlanReject", id)
    /\ UNCHANGED << sceneVars, withRetryCall, variant, nextId, remote, processingId >>

\* initiateVideoRender resolves with the name of the started operation
VideoStartResolve(id) ==
    /\ variant = "part_011"
    /\ task[id].pc = "PromiseAll"
    /\ task[id].video = "pending"
    /\ remote' = [ remote EXCEPT ![id] = "running" ]
    /\ IF task[id].voice \in { "ok", "fail" }
       THEN CommitB(RenderStarted(queue, id), FALSE,
                    [ task EXCEPT ![id].pc = "returned", ![id].video = "resolved" ],
                    pollingIntervals, inFlight)
       ELSE /\ task' = [ task EXCEPT ![id].video = "resolved" ]
            /\ UNCHANGED << queue, processingRef, pollingIntervals, inFlight, pollLog >>
    /\ lastEvent' = Ev("VideoStartResolve", id)
    /\ UNCHANGED << sceneVars, withRetryCall, variant, nextId, processingId >>

\* initiateVideoRender rejects with data.error.message: Promise.all rejects
\* at once, and the catch of processQueue only marks the item FAILED
VideoStartRejectAs(id, message) ==
    /\ variant = "part_011"
    /\ task[id].pc = "PromiseAll"
    /\ task[id].video = "pending"
    /\ CommitB(Catch(queue, id, message), FALSE,
               [ task EXCEPT ![id].pc = "returned", ![id].video = "rejected" ],
               pollingIntervals, inFlight)
    /\ lastEvent' = Ev("VideoStartReject", id)
    /\ UNCHANGED << sceneVars, withRetryCall, variant, nextId, remote, processingId >>

VideoStartReject(id) ==
    \E message \in { "API error", "Requested entity was not found" } :
        VideoStartRejectAs(id, message)

\* generateVoiceover settles; its .then merges the audio URL, and Promise.all
\* resolves when the render start has resolved too
VoiceSettle(id) ==
    /\ variant = "part_011"
    /\ task[id].voice = "pending"
    /\ \E outcome \in { "ok", "fail" } :
        LET audioUrl == generateVoiceover(outcome)
            merged == 
                [ k \in DOMAIN queue |-> IF queue[k].id = id THEN AudioMerge(queue[k], audioUrl) ELSE queue[k] ]
            settled == [ task EXCEPT ![id].voice = outcome ]
        IN  IF audioUrl = "throw"
            THEN IF task[id].pc = "PromiseAll"
                 THEN CommitB(Catch(queue, id, "voice error"), FALSE,
                              [ settled EXCEPT ![id].pc = "returned" ],
                              pollingIntervals, inFlight)
                 ELSE /\ task' = settled
                      /\ UNCHANGED << queue, processingRef, pollingIntervals, inFlight, pollLog >>
            ELSE IF task[id].pc = "PromiseAll" /\ task[id].video = "resolved"
                 THEN CommitB(RenderStarted(merged, id), FALSE,
                              [ settled EXCEPT ![id].pc = "returned" ],
                              pollingIntervals, inFlight)
                 ELSE CommitB(merged, processingRef, settled, pollingIntervals, inFlight)
    /\ lastEvent' = Ev("VoiceSettle", id)
    /\ UNCHANGED << sceneVars, withRetryCall, variant, nextId, remote, processingId >>

\* the remote video operation finishes
RemoteFinish(id) ==
    /\ variant = "part_011"
    /\ remote[id] = "running"
    /\ \E r \in { "ok", "error", "nouri" } : remote' = [ remote EXCEPT ![id] = r ]
    /\ lastEvent' = Ev("RemoteFinish", id)
    /\ UNCHANGED << sceneVars, withRetryCall, variant, queue, nextId, processingRef, processingId, task,
                    pollingIntervals, inFlight, pollLog >>

\* window.setInterval(run, 8000) fires: run issues a poll
Tick(id) ==
    /\ variant = "part_011"
    /\ id \in pollingIntervals
    /\ MayPoll(pollLog, inFlight, { id })
    /\ inFlight' = [ inFlight EXCEPT ![id] = @ + 1 ]
    /\ pollLog' = Issued(pollLog, { id })
    /\ lastEvent' = Ev("Tick", id)
    /\ UNCHANGED << sceneVars, withRetryCall, variant, queue, nextId, processingRef, processingId, task,
                    remote, pollingIntervals >>

\* the body of run after await pollVideoAdStatus(item.operationName!)
PollResponse(id) ==
    /\ variant = "part_011"
    /\ inFlight[id] > 0
    /\ LET status == pollVideoAdStatus(remote[id])
           fl == [ inFlight EXCEPT ![id] = @ - 1 ]
           log == Answered(pollLog, id, FALSE)
       IN  IF status.done
           THEN /\ CommitPolls(PollMerge(queue, id, status), processingRef, task,
                               pollingIntervals \ { id }, fl,
                               Cleared(log, pollingIntervals, id))
                /\ lastEvent' = Ev(IF id \in pollingIntervals THEN "PollDone" ELSE "PollDoneAgain", id)
           ELSE /\ inFlight' = fl
                /\ pollLog' = log
                /\ lastEvent' = Ev("PollNotDone", id)
                /\ UNCHANGED << queue, processingRef, task, pollingIntervals >>
    /\ UNCHANGED << sceneVars, withRetryCall, variant, nextId, remote, processingId >>

\* pollVideoAdStatus throws (the response is not ok): run rejects, nothing catches it
PollThrow(id) ==
    /\ variant = "part_011"
    /\ inFlight[id] > 0
    /\ inFlight' = [ inFlight EXCEPT ![id] = @ - 1 ]
    /\ pollLog' = Answered(pollLog, id, TRUE)
    /\ lastEvent' = Ev("PollThrow", id)
    /\ UNCHANGED << sceneVars, withRetryCall, variant, queue, nextId, processingRef, processingId, task,
                    remote, pollingIntervals >>

\* no plan is closed over
NoPlan == << >>

\* renderLogs[sceneId] is kept as its length and its last entry, which is all
\* the code reads of it; an entry that is no creative log is "text"
NoLog == [ length |-> 0, last |-> "" ]

InitComponents ==
    /\ queue = << >>
    /\ nextId = 1
    /\ processingRef = FALSE
    /\ processingId = 0
    /\ task = [ j \in JobIds |-> IdleTask ]
    /\ remote = [ j \in JobIds |-> "none" ]
    /\ pollingIntervals = {}
    /\ inFlight = [ j \in JobIds |-> 0 ]
    /\ lastEvent = Ev("Init", 0)
    /\ scene_map = [ s \in SceneIds |-> NewScene ]
    /\ renderCall = [ s \in SceneIds |-> IdleCall ]
    /\ scenePolls = [ s \in SceneIds |-> 0 ]
    /\ written = [ s \in SceneIds |-> NewScene ]
    /\ display = [ shown |-> "item", timers |-> [ s \in SceneIds |-> 0 ],
                   renderLogs |-> [ s \in SceneIds |-> NoLog ] ]
    /\ captured = [ calls |-> [ s \in SceneIds |-> NoPlan ],
                    polls |-> [ s \in SceneIds |-> << >> ] ]

\* no withRetry call is followed
NoCall == [ version |-> "none", retries |-> 0, delay |-> 0, pc |-> "none",
            error |-> "", waits |-> << >> ]

NoPolls == [ j \in JobIds |-> 0 ]
NoAnswer == [ j \in JobIds |-> FALSE ]

InitCommon ==
    /\ InitComponents
    /\ withRetryCall = NoCall
    /\ pollLog = [ on |-> FALSE, calls |-> NoPolls, answered |-> NoAnswer, threw |-> NoAnswer,
                   timers |-> NoPolls ]

InitB == variant = "part_011" /\ InitCommon

NextB ==
    \/ SubmitB
    \/ \E id \in JobIds : RemoveB(id)
    \/ \E id \in JobIds : PlanResolve(id)
    \/ \E id \in JobIds : PlanReject(id)
    \/ \E id \in JobIds : VideoStartResolve(id)
    \/ \E id \in JobIds : VideoStartReject(id)
    \/ \E id \in JobIds : VoiceSettle(id)
    \/ \E id \in JobIds : RemoteFinish(id)
    \/ \E id \in JobIds : Tick(id)
    \/ \E id \in JobIds : PollResponse(id)
    \/ \E id \in JobIds : PollThrow(id)

SpecB == InitB /\ [][NextB]_vars

\* the same App with its polls counted
InitPoll ==
    /\ variant = "part_011"
    /\ InitComponents
    /\ withRetryCall = NoCall
    /\ pollLog = [ on |-> TRUE, calls |-> NoPolls, answered |-> NoAnswer, threw |-> NoAnswer,
                   timers |-> NoPolls ]


----------------------------------------------------------------------------
(* Properties of src/unnamed/part_011                                      *)

Submitted == 1 .. (nextId - 1)

StatusOf(id) == IF id \in Ids(queue) THEN Item(queue, id).status ELSE "absent"

\* the job holds an operation name whose timer has not been stopped by a done response
LiveHandle(i) == i.operationName # 0 /\ i.id \in pollingIntervals

C4_LateResponseDiscarded ==
    [][ \A id \in JobIds :
            (variant = "part_011" /\ id \notin Ids(queue) /\ inFlight'[id] < inFlight[id])
                => queue' = queue ]_vars

C4_Witness ==
    /\ variant = "part_011"
    /\ lastEvent.op = "PollDone"
    /\ lastEvent.id \notin Ids(queue)
    /\ remote[lastEvent.id] = "ok"
    /\ \E k \in DOMAIN queue : queue[k].status = "POLLING"

\* C5 as stated: once a job is removed no poll is issued for its operation.
C5_NoPollAfterRemoval ==
    [][ \A id \in JobIds :
            (variant = "part_011" /\ id \in Submitted /\ id \notin Ids(queue))
                => inFlight'[id] <= inFlight[id] ]_vars

----------------------------------------------------------------------------
(* src/App.tsx: one job at a time runs generateVideoAd                     *)
(* (src/services/geminiService.ts), which starts the video operation,      *)
(* polls it in a loop and synthesises the voice in parallel.  The loop     *)
(* touches only locals of videoTask, so videoTask is an operator of what   *)
(* the remote service answers: whether the start call succeeds, the poll   *)
(* at which the operation first reports done and how it ended, and the     *)
(* poll at which getVideosOperation throws, if any.                        *)

MaxAttempts == 90

\* a selection that does not look at processingId
NextItemAIgnoresLock(pid, q) == FindPending(q)

\* const nextItem = queue.find(...); if (!nextItem || processingId) return;
NextItemA(pid, q) == IF pid # 0 THEN 0 ELSE FindPending(q)

\* while (!operation.done && attempts < 90)
LoopContinues(op, n) == op = "running" /\ n < MaxAttempts

\* if (operation.error) throw ...;
\* const video = operation.response?.generatedVideos?.[0]?.video;
\* return { uri: `${video.uri}&key=${apiKey}`, raw: video }
VideoTaskResult(op) ==
    CASE op = "error"   -> [ ok |-> FALSE, value |-> "API error" ]
      [] op = "running" -> [ ok |-> FALSE, value |-> "Cannot read properties of undefined" ]
      [] op = "novideo" -> [ ok |-> FALSE, value |-> "Cannot read properties of undefined" ]
      [] op = "nouri"   -> [ ok |-> TRUE, value |-> "undefined&key" ]
      [] op = "ok"      -> [ ok |-> TRUE, value |-> "uri&key" ]

\* The poll loop from `attempts` polls made with `op` the operation last seen:
\* the poll numbered doneAt is the first to report done (as `final`), the poll
\* numbered throwAt throws (0: none does).
RECURSIVE PollLoop(_, _, _, _, _)
PollLoop(attempts, op, doneAt, final, throwAt) ==
    IF ~LoopContinues(op, attempts)
    THEN [ thrown |-> FALSE, op |-> op, attempts |-> attempts ]
    ELSE IF attempts + 1 = throwAt
    THEN [ thrown |-> TRUE, op |-> op, attempts |-> attempts ]
    ELSE PollLoop(attempts + 1, IF attempts + 1 >= doneAt THEN final ELSE "running",
                  doneAt, final, throwAt)

\* videoTask: [ok, value, how], value the uri or the message of the error
videoTask(start, doneAt, final, throwAt) ==
    IF start # "ok"
    THEN [ ok |-> FALSE, value |-> start, how |-> "rejected" ]
    ELSE LET l == PollLoop(0, "running", doneAt, final, throwAt)
             r == VideoTaskResult(l.op)
         IN  IF l.thrown
             THEN [ ok |-> FALSE, value |-> "API error", how |-> "rejected" ]
             ELSE [ ok |-> r.ok, value |-> r.value,
                    how |-> IF l.op = "running" THEN "exhausted"
                            ELSE IF r.ok THEN r.value ELSE "rejected" ]

\* setQueue(prev => prev.map(i => i.id === nextItem.id ? { ...i, status: 'COMPLETED', result } : i))
ResultMerge(i, videoUrl, audioUrl) ==
    [ i EXCEPT !.status = "COMPLETED", !.videoUrl = videoUrl, !.audioUrl = audioUrl ]

\* errorMessage.includes("Requested entity was not found")
InvalidKey(message) == message = "Requested entity was not found"

\* catch (error) of processQueue.  setApiKeyReady(false) swaps the page for
\* the key screen until checkApiKey or handleSelectKey sets it back, which
\* either can do before the next step; apiKeyReady is read by nothing else.
CatchA(q, id, message) ==
    IF InvalidKey(message)
    THEN updateItemStatus(q, id, "FAILED", "Invalid API Key. Please select a valid project.")
    ELSE updateItemStatus(q, id, "FAILED", message)

\* a retry button that changes nothing
RetryRenderNoOp(q, id) == q

\* onClick={() => updateItemStatus(selectedItem.id, 'PENDING')}
RetryRender(q, id) == updateItemStatus(q, id, "PENDING", Undefined)

\* the queue effect on the state a step leaves
EffectsA(q, pid, tk) ==
    LET id == NextItemA(pid, q)
    IN  [ queue |-> IF id = 0 THEN q ELSE updateItemStatus(q, id, "GENERATING", Undefined),
          processingId |-> IF id = 0 THEN pid ELSE id,
          task |-> IF id = 0 THEN tk
                   ELSE [ tk EXCEPT ![id] = [ pc |-> "generateVideoAd", video |-> "pending",
                                              voice |-> "pending" ] ] ]

CommitA(q, pid, tk) ==
    LET e == EffectsA(q, pid, tk)
    IN  /\ queue' = e.queue
        /\ processingId' = e.processingId
        /\ task' = e.task

\* generateVideoAd resolves: COMPLETED, finally setProcessingId(null)
ReturnA(id, videoUrl, audioUrl, tk) ==
    /\ CommitA([ k \in DOMAIN queue |-> IF queue[k].id = id THEN ResultMerge(queue[k], videoUrl, audioUrl) ELSE queue[k] ],
               0,
               [ tk EXCEPT ![id].pc = "returned" ])
    /\ lastEvent' = Ev("Returned", id)

\* the catch calls handleSelectKey(), once and without await, for an invalid
\* key only; lastEvent names the step that made the call
CatchEvent(id, message) ==
    IF InvalidKey(message) THEN Ev("handleSelectKey", id) ELSE Ev("Rejected", id)

\* a rejection whose finally does not give processingId back
RejectAKeepsLock(id, message, tk) ==
    /\ CommitA(CatchA(queue, id, message), processingId, [ tk EXCEPT ![id].pc = "returned" ])
    /\ lastEvent' = CatchEvent(id, message)

\* generateVideoAd rejects: catch, finally setProcessingId(null)
RejectA(id, message, tk) ==
    /\ CommitA(CatchA(queue, id, message), 0, [ tk EXCEPT ![id].pc = "returned" ])
    /\ lastEvent' = CatchEvent(id, message)

SubmitA ==
    /\ variant = "App"
    /\ nextId <= MaxJobsApp
    /\ nextId' = nextId + 1
    /\ CommitA(handleAddToQueue(queue, nextId), processingId, task)
    /\ lastEvent' = Ev("Submit", nextId)
    /\ UNCHANGED << sceneVars, withRetryCall, pollLog, variant, processingRef, remote, pollingIntervals, inFlight >>

\* the remove button of BatchQueue: disabled={item.status === 'GENERATING'}
RemoveA(id) ==
    /\ variant = "App"
    /\ id \in Ids(queue)
    /\ Item(queue, id).status # "GENERATING"
    /\ CommitA(handleRemoveFromQueue(queue, id), processingId, [ task EXCEPT ![id] = IdleTask ])
    /\ lastEvent' = Ev("Remove", id)
    /\ UNCHANGED << sceneVars, withRetryCall, pollLog, variant, nextId, processingRef, remote, pollingIntervals, inFlight >>

\* "Retry Render", shown for a FAILED item
RetryA(id) ==
    /\ variant = "App"
    /\ id \in Ids(queue)
    /\ Item(queue, id).status = "FAILED"
    /\ CommitA(RetryRender(queue, id), processingId, [ task EXCEPT ![id] = IdleTask ])
    /\ lastEvent' = Ev("Retry", id)
    /\ UNCHANGED << sceneVars, withRetryCall, pollLog, variant, nextId, processingRef, remote, pollingIntervals, inFlight >>

StartOutcomes == { "ok", "Requested entity was not found", "API error", "" }
DoneAtValues == { 1, MaxAttempts, MaxAttempts + 1 }
ThrowAtValues == { 0, 2 }
FinalStates == { "ok", "error", "novideo", "nouri" }

\* what videoTask can settle as, over the answers of the remote service
VideoTaskOutcomes ==
    { videoTask(start, doneAt, final, throwAt) :
        start \in StartOutcomes, doneAt \in DoneAtValues, final \in FinalStates,
        throwAt \in ThrowAtValues }

\* videoTask settles; if it rejects so does Promise.all, if it resolves
\* Promise.all waits for audioTask
GenVideoSettleAs(id, v) ==
    /\ variant = "App"
    /\ task[id].pc = "generateVideoAd"
    /\ task[id].video = "pending"
    /\ LET tk == [ task EXCEPT ![id].video = v.how ]
       IN  IF ~v.ok
           THEN RejectA(id, v.value, tk)
           ELSE IF task[id].voice = "pending"
           THEN /\ task' = tk
                /\ lastEvent' = Ev("GenVideoSettle", id)
                /\ UNCHANGED << queue, processingId >>
           ELSE ReturnA(id, v.value, generateVoiceover(task[id].voice), tk)
    /\ UNCHANGED << sceneVars, withRetryCall, pollLog, variant, nextId, processingRef, remote, pollingIntervals, inFlight >>

GenVideoSettle(id) == \E v \in VideoTaskOutcomes : GenVideoSettleAs(id, v)

\* audioTask settles; Promise.all resolves when videoTask has resolved too
GenVoiceSettle(id) ==
    /\ variant = "App"
    /\ task[id].pc = "generateVideoAd"
    /\ task[id].voice = "pending"
    /\ \E outcome \in { "ok", "fail" } :
        LET audioUrl == generateVoiceover(outcome)
            settled == [ task EXCEPT ![id].voice = outcome ]
        IN  IF audioUrl = "throw"
            THEN RejectA(id, "voice error", settled)
            ELSE IF task[id].video = "pending"
            THEN /\ task' = settled
                 /\ lastEvent' = Ev("GenVoiceSettle", id)
                 /\ UNCHANGED << queue, processingId >>
            ELSE ReturnA(id, task[id].video, audioUrl, settled)
    /\ UNCHANGED << sceneVars, withRetryCall, pollLog, variant, nextId, processingRef, remote, pollingIntervals, inFlight >>

InitA == variant = "App" /\ InitCommon

NextA ==
    \/ SubmitA
    \/ \E id \in JobIds : RemoveA(id)
    \/ \E id \in JobIds : RetryA(id)
    \/ \E id \in JobIds : GenVideoSettle(id)
    \/ \E id \in JobIds : GenVoiceSettle(id)

SpecA == InitA /\ [][NextA]_vars

----------------------------------------------------------------------------
(* The App of src/services/geminiService.ts (lines 284-480): processPlan   *)
(* synthesises the plan of one PENDING item at a time; the scenes are      *)
(* rendered later, from AdPlanDisplay.                                     *)

\* handleUpdateItem: setQueue(prev => prev.map(i => i.id === id ? { ...i, ...updates } : i))
handleUpdateItem(q, id, updates) ==
    [ k \in DOMAIN q |->
        IF q[k].id = id
        THEN [ f \in DOMAIN q[k] |-> IF f \in DOMAIN updates THEN updates[f] ELSE q[k][f] ]
        ELSE q[k] ]

\* catch (error) { handleUpdateItem(id, { status: 'FAILED', error: error.message || "Synthesis Engine Failure" }) }
CatchPlan(q, id, message) ==
    handleUpdateItem(q, id, [ status |-> "FAILED",
                              error |-> OrElse(message, "Synthesis Engine Failure") ])

\* the effect on the state a step leaves: processPlan admits the next PENDING item
EffectsC(q, ref, tk) ==
    LET id == NextItem(ref, q)
    IN  [ queue |-> IF id = 0 THEN q ELSE handleUpdateItem(q, id, [ status |-> "INITIATING" ]),
          processingRef |-> (ref \/ id # 0),
          task |-> IF id = 0 THEN tk
                   ELSE [ tk EXCEPT ![id] = [ IdleTask EXCEPT !.pc = "generateAdPlan" ] ] ]

CommitC(q, ref, tk) ==
    LET e == EffectsC(q, ref, tk)
    IN  /\ queue' = e.queue
        /\ processingRef' = e.processingRef
        /\ task' = e.task

SubmitC ==
    /\ variant = "processPlan"
    /\ nextId <= MaxJobs
    /\ nextId' = nextId + 1
    /\ CommitC(handleAddToQueue(queue, nextId), processingRef, task)
    /\ lastEvent' = Ev("Submit", nextId)
    /\ UNCHANGED << sceneVars, withRetryCall, pollLog, variant, processingId, remote, pollingIntervals, inFlight >>

\* onRemove={(id) => setQueue(q => q.filter(i => i.id !== id))}
RemoveC(id) ==
    /\ variant = "processPlan"
    /\ id \in Ids(queue)
    /\ CommitC(handleRemoveFromQueue(queue, id), processingRef, task)
    /\ lastEvent' = Ev("Remove", id)
    /\ UNCHANGED << sceneVars, withRetryCall, pollLog, variant, nextId, processingId, remote, pollingIntervals, inFlight >>

\* the retry button of a FAILED item without plan:
\* handleUpdateItem(selectedItem.id, { status: 'PENDING' })
RetryC(id) ==
    /\ variant = "processPlan"
    /\ id \in Ids(queue)
    /\ Item(queue, id).status = "FAILED"
    /\ ~Item(queue, id).plan
    /\ CommitC(handleUpdateItem(queue, id, [ status |-> "PENDING" ]), processingRef, task)
    /\ lastEvent' = Ev("Retry", id)
    /\ UNCHANGED << sceneVars, withRetryCall, pollLog, variant, nextId, processingId, remote, pollingIntervals, inFlight >>

\* generateAdPlan resolves: COMPLETED with the plan, the thumbnails are
\* started in the background, finally { processingRef.current = false }
PlanResolveC(id) ==
    /\ variant = "processPlan"
    /\ task[id].pc = "generateAdPlan"
    /\ CommitC(handleUpdateItem(queue, id, [ plan |-> TRUE, status |-> "COMPLETED" ]), FALSE,
               [ task EXCEPT ![id].pc = "generateSceneThumbnails" ])
    /\ lastEvent' = Ev("PlanResolve", id)
    /\ UNCHANGED << sceneVars, withRetryCall, pollLog, variant, nextId, processingId, remote, pollingIntervals, inFlight >>

\* generateAdPlan rejects: catch, finally { processingRef.current = false }
PlanRejectC(id) ==
    /\ variant = "processPlan"
    /\ task[id].pc = "generateAdPlan"
    /\ \E message \in { "API error", "" } :
          CommitC(CatchPlan(queue, id, message), FALSE, [ task EXCEPT ![id].pc = "returned" ])
    /\ lastEvent' = Ev("PlanReject", id)
    /\ UNCHANGED << sceneVars, withRetryCall, pollLog, variant, nextId, processingId, remote, pollingIntervals, inFlight >>

\* generateSceneThumbnails resolves: handleUpdateItem(id, { thumbnails }),
\* which changes no field of the item that is modelled here
ThumbnailsResolve(id) ==
    /\ variant = "processPlan"
    /\ task[id].pc = "generateSceneThumbnails"
    /\ CommitC(handleUpdateItem(queue, id, << >>), processingRef,
               [ task EXCEPT ![id].pc = "returned" ])
    /\ lastEvent' = Ev("ThumbnailsResolve", id)
    /\ UNCHANGED << sceneVars, withRetryCall, pollLog, variant, nextId, processingId, remote, pollingIntervals, inFlight >>

InitC == variant = "processPlan" /\ InitCommon

NextC ==
    \/ SubmitC
    \/ \E id \in JobIds : RemoveC(id)
    \/ \E id \in JobIds : RetryC(id)
    \/ \E id \in JobIds : PlanResolveC(id)
    \/ \E id \in JobIds : PlanRejectC(id)
    \/ \E id \in JobIds : ThumbnailsResolve(id)

SpecC == InitC /\ [][NextC]_vars

----------------------------------------------------------------------------
(* The three App components together                                       *)

Init == InitA \/ InitB \/ InitC

Next == NextA \/ NextB \/ NextC

Spec == Init /\ [][Next]_vars

----------------------------------------------------------------------------
(* src/components/AdPlanDisplay.tsx: the scenes of one item are rendered   *)
(* on demand, each by a handleRenderScene call and then by the polls of    *)
(* the interval timer of its video operation.  Every update goes through   *)
(* onUpdateItem as a function of the latest item.  The effect clears and   *)
(* re-creates the timers whenever the plan changes, so the scenes with a   *)
(* timer are those that are POLLING with an operation while their item is  *)
(* the one shown.                                                          *)

\* { ...s, ...patch }
Merge(scene, patch) ==
    [ f \in DOMAIN scene |-> IF f \in DOMAIN patch THEN patch[f] ELSE scene[f] ]

\* an updater that patches every scene
ScenePatchAll(scenes, sceneId, patch) ==
    [ s \in DOMAIN scenes |-> Merge(scenes[s], patch) ]

\* prev.plan.scene_map.map(s => s.scene_id === sceneId ? { ...s, ...patch } : s)
ScenePatch(scenes, sceneId, patch) ==
    [ s \in DOMAIN scenes |-> IF s = sceneId THEN Merge(scenes[s], patch) ELSE scenes[s] ]

\* onUpdateItem(updater) of the parent: the updater, here the patch of one
\* scene, is applied to the latest item of the queue and its result is merged
\* into that item
onUpdateItem(latest, sceneId, patch) == ScenePatch(latest, sceneId, patch)

\* plan.scene_map.filter(s => s.renderStatus === 'POLLING' && s.videoOperation)
pollingScenes(scenes) ==
    { s \in DOMAIN scenes :
        scenes[s].renderStatus = "POLLING" /\ scenes[s].videoOperation # Undefined }

\* audioUrl: audioUrl || undefined
AudioOrUndefined(audioUrl) == IF audioUrl = "null" THEN Undefined ELSE audioUrl

\* return () => intervals.forEach(id => clearInterval(id))
Cleanup(timers) == [ s \in DOMAIN timers |-> 0 ]

\* The polling effect of AdPlanDisplay, with deps [plan, onUpdateItem]: when
\* the plan or what is shown changes, the cleanup of the last run clears its
\* intervals and the new run sets one for every polling scene of the item it
\* shows.  timers counts the live intervals of each scene of the item.
PollingEffect(timers, shownBefore, before, shownAfter, after) ==
    IF shownBefore = shownAfter /\ before = after
    THEN timers
    ELSE [ s \in DOMAIN timers |->
             Cleanup(timers)[s]
               + (IF shownAfter = "item" /\ s \in pollingScenes(after) THEN 1 ELSE 0) ]

\* [...(prev[sceneId] || []), entry]; a length above MaxLogLength is kept as
\* MaxLogLength
LogAppend(logs, sceneId, entry) ==
    [ logs EXCEPT ![sceneId] =
        [ length |-> IF @.length < MaxLogLength THEN @.length + 1 ELSE MaxLogLength,
          last |-> entry ] ]

\* .slice(-4)
Slice4(log) == [ log EXCEPT !.length = IF @ <= 4 THEN @ ELSE 4 ]

\* if (logs[logs.length - 1] === randomLog) return prev;
\* return { ...prev, [scene.scene_id]: [...logs, randomLog].slice(-4) }
LogProgress(logs, sceneId, randomLog) ==
    IF logs[sceneId].last = randomLog
    THEN logs
    ELSE [ logs EXCEPT ![sceneId] = Slice4([ length |-> @.length + 1, last |-> randomLog ]) ]

\* one commit of AdPlanDisplay: the logs as given, the effect on the new plan
Commit(logs) ==
    display' = [ shown |-> display.shown,
                 timers |-> PollingEffect(display.timers, display.shown, scene_map,
                                          display.shown, scene_map'),
                 renderLogs |-> logs ]

\* one update of the scene: the store applies the updater, `written` records
\* what the update wrote for its scene
UpdateScene(sceneId, patch) ==
    /\ scene_map' = onUpdateItem(scene_map, sceneId, patch)
    /\ written' = [ written EXCEPT ![sceneId] = Merge(@, patch) ]

\* onSelect of BatchQueue: another item that has a plan is selected ("other"),
\* which the same AdPlanDisplay then shows, or the item is selected again
onSelect(what) ==
    /\ variant = "AdPlanDisplay"
    /\ what # display.shown
    /\ display' = [ shown |-> what,
                    timers |-> PollingEffect(display.timers, display.shown, scene_map,
                                             what, scene_map),
                    renderLogs |-> display.renderLogs ]
    /\ lastEvent' = Ev("onSelect", 0)
    /\ UNCHANGED << variant, queueVars, withRetryCall, pollLog, captured, scene_map, renderCall,
                    scenePolls, written >>

\* the Generate / Retry button of a scene: handleRenderScene up to its first await
RenderScene(sceneId) ==
    /\ variant = "AdPlanDisplay"
    /\ display.shown = "item"
    /\ scene_map[sceneId].renderStatus \in { Undefined, "FAILED" }
    /\ renderCall[sceneId].pc = "idle"
    /\ UpdateScene(sceneId, [ renderStatus |-> "RENDERING" ])
    /\ Commit(LogAppend([ display.renderLogs EXCEPT ![sceneId] = [ length |-> 1, last |-> "text" ] ],
                        sceneId, "text"))
    /\ renderCall' = [ renderCall EXCEPT ![sceneId].pc = "generateVoiceover" ]
    /\ lastEvent' = Ev("RenderScene", sceneId)
    /\ UNCHANGED << variant, queueVars, withRetryCall, pollLog, captured, scenePolls >>

\* generateVoiceover settles (null when synthesis fails); initiateVideoRender is called
SceneVoiceSettle(sceneId) ==
    /\ variant = "AdPlanDisplay"
    /\ renderCall[sceneId].pc = "generateVoiceover"
    /\ \E outcome \in { "ok", "fail" } :
          renderCall' = [ renderCall EXCEPT ![sceneId] =
                            [ pc |-> "initiateVideoRender",
                              audioUrl |-> generateVoiceover(outcome) ] ]
    /\ UNCHANGED << scene_map, written >>
    /\ Commit(LogAppend(display.renderLogs, sceneId, "text"))
    /\ lastEvent' = Ev("SceneVoiceSettle", sceneId)
    /\ UNCHANGED << variant, queueVars, withRetryCall, pollLog, captured, scenePolls >>

\* initiateVideoRender resolves with the operation: the scene is POLLING
SceneRenderStart(sceneId) ==
    /\ variant = "AdPlanDisplay"
    /\ renderCall[sceneId].pc = "initiateVideoRender"
    /\ UpdateScene(sceneId, [ renderStatus |-> "POLLING", videoOperation |-> "running",
                              audioUrl |-> AudioOrUndefined(renderCall[sceneId].audioUrl) ])
    /\ Commit(display.renderLogs)
    /\ renderCall' = [ renderCall EXCEPT ![sceneId] = IdleCall ]
    /\ lastEvent' = Ev("SceneRenderStart", sceneId)
    /\ UNCHANGED << variant, queueVars, withRetryCall, pollLog, captured, scenePolls >>

\* initiateVideoRender rejects: catch, the scene is FAILED
SceneRenderReject(sceneId) ==
    /\ variant = "AdPlanDisplay"
    /\ renderCall[sceneId].pc = "initiateVideoRender"
    /\ UpdateScene(sceneId, [ renderStatus |-> "FAILED" ])
    /\ Commit(LogAppend(display.renderLogs, sceneId, "text"))
    /\ renderCall' = [ renderCall EXCEPT ![sceneId] = IdleCall ]
    /\ lastEvent' = Ev("SceneRenderReject", sceneId)
    /\ UNCHANGED << variant, queueVars, withRetryCall, pollLog, captured, scenePolls >>

\* window.setInterval(run, 5000) of a polling scene fires: run issues a poll
SceneTick(sceneId) ==
    /\ variant = "AdPlanDisplay"
    /\ display.timers[sceneId] > 0
    /\ Total(scenePolls, MaxScenes) < MaxScenePolls
    /\ scenePolls' = [ scenePolls EXCEPT ![sceneId] = @ + 1 ]
    /\ lastEvent' = Ev("SceneTick", sceneId)
    /\ UNCHANGED << variant, queueVars, withRetryCall, pollLog, captured, scene_map, renderCall,
                    written, display >>

\* what pollVideoAdStatus answers
PollAnswers == { "running", "done", "failed", "throws" }

\* creativeLogs[Math.floor(Math.random() * creativeLogs.length)], two of the five
CreativeLogs == { "Adjusting", "Simulating" }

\* the body of run after await pollVideoAdStatus(scene.videoOperation)
ScenePollResponseAs(sceneId, status) ==
    /\ variant = "AdPlanDisplay"
    /\ scenePolls[sceneId] > 0
    /\ scenePolls' = [ scenePolls EXCEPT ![sceneId] = @ - 1 ]
    /\    CASE status = "running" ->
                  /\ UNCHANGED << scene_map, written >>
                  /\ \E randomLog \in CreativeLogs :
                        Commit(LogProgress(display.renderLogs, sceneId, randomLog))
            [] status = "done" ->
                  /\ UpdateScene(sceneId, [ renderStatus |-> "COMPLETED", videoUrl |-> "uri",
                                            videoOperation |-> "done" ])
                  /\ Commit(LogAppend(display.renderLogs, sceneId, "text"))
            [] OTHER ->
                  /\ UpdateScene(sceneId, [ renderStatus |-> "FAILED" ])
                  /\ Commit(LogAppend(display.renderLogs, sceneId, "text"))
    /\ lastEvent' = Ev("ScenePollResponse", sceneId)
    /\ UNCHANGED << variant, queueVars, withRetryCall, pollLog, captured, renderCall >>

ScenePollResponse(sceneId) ==
    \E status \in PollAnswers : ScenePollResponseAs(sceneId, status)

InitScene == variant = "AdPlanDisplay" /\ InitCommon

NextScene ==
    \/ \E what \in { "item", "other" } : onSelect(what)
    \/ \E sceneId \in SceneIds : RenderScene(sceneId)
    \/ \E sceneId \in SceneIds : SceneVoiceSettle(sceneId)
    \/ \E sceneId \in SceneIds : SceneRenderStart(sceneId)
    \/ \E sceneId \in SceneIds : SceneRenderReject(sceneId)
    \/ \E sceneId \in SceneIds : SceneTick(sceneId)
    \/ \E sceneId \in SceneIds : ScenePollResponse(sceneId)

SpecScene == InitScene /\ [][NextScene]_vars

----------------------------------------------------------------------------
(* The AdPlanDisplay of src/App.tsx: the same scenes, but every update is  *)
(* an object built from the plan of the render in which the handler or the *)
(* effect ran, and onUpdateItem merges that object into the item.          *)

\* const newScenes = [...plan.scene_map]; newScenes[idx] = { ...newScenes[idx], ...patch }
PatchedCopy(plan, sceneId, patch) == ScenePatch(plan, sceneId, patch)

\* onUpdateItem({ plan: { ...plan, scene_map: newScenes } }): the item gets
\* the scene map it is given, whatever the latest one holds
onUpdateItemObject(latest, newScenes) == newScenes

\* .slice(-3)
Slice3(log) == [ log EXCEPT !.length = IF @ <= 3 THEN @ ELSE 3 ]

\* the polls of the embedded renderer awaiting their response
Awaiting(polls) == [ s \in DOMAIN polls |-> Len(polls[s]) ]

\* a sequence without its i-th element
Without(seq, i) == SubSeq(seq, 1, i - 1) \o SubSeq(seq, i + 1, Len(seq))

\* one update of the embedded renderer: the store takes the copy
WriteScenes(newScenes) ==
    /\ scene_map' = onUpdateItemObject(scene_map, newScenes)
    /\ UNCHANGED written

\* the Generate button of a scene: handleRenderScene up to its first await;
\* newScenes is kept by the closure for the updates that follow
RenderSceneE(sceneId) ==
    /\ variant = "AppScenes"
    /\ scene_map[sceneId].renderStatus \in { Undefined, "FAILED" }
    /\ renderCall[sceneId].pc = "idle"
    /\ LET newScenes == PatchedCopy(scene_map, sceneId, [ renderStatus |-> "RENDERING" ])
       IN  /\ WriteScenes(newScenes)
           /\ captured' = [ captured EXCEPT !.calls[sceneId] = newScenes ]
    /\ Commit([ display.renderLogs EXCEPT ![sceneId] = [ length |-> 1, last |-> "text" ] ])
    /\ renderCall' = [ renderCall EXCEPT ![sceneId].pc = "generateVoiceover" ]
    /\ lastEvent' = Ev("RenderScene", sceneId)
    /\ UNCHANGED << variant, queueVars, withRetryCall, pollLog, scenePolls >>

\* generateVoiceover settles (null when synthesis fails); initiateVideoRender is called
SceneVoiceSettleE(sceneId) ==
    /\ variant = "AppScenes"
    /\ renderCall[sceneId].pc = "generateVoiceover"
    /\ \E outcome \in { "ok", "fail" } :
          renderCall' = [ renderCall EXCEPT ![sceneId] =
                            [ pc |-> "initiateVideoRender",
                              audioUrl |-> generateVoiceover(outcome) ] ]
    /\ lastEvent' = Ev("SceneVoiceSettle", sceneId)
    /\ UNCHANGED << variant, queueVars, withRetryCall, pollLog, scene_map, written,
                    scenePolls, display, captured >>

\* initiateVideoRender resolves: pollingScenes is a copy of newScenes
SceneRenderStartE(sceneId) ==
    /\ variant = "AppScenes"
    /\ renderCall[sceneId].pc = "initiateVideoRender"
    /\ LET patch == [ renderStatus |-> "POLLING", videoOperation |-> "running",
                      audioUrl |-> AudioOrUndefined(renderCall[sceneId].audioUrl) ]
       IN  WriteScenes(PatchedCopy(captured.calls[sceneId], sceneId, patch))
    /\ Commit(LogAppend(display.renderLogs, sceneId, "text"))
    /\ renderCall' = [ renderCall EXCEPT ![sceneId] = IdleCall ]
    /\ captured' = [ captured EXCEPT !.calls[sceneId] = NoPlan ]
    /\ lastEvent' = Ev("SceneRenderStart", sceneId)
    /\ UNCHANGED << variant, queueVars, withRetryCall, pollLog, scenePolls >>

\* initiateVideoRender rejects: failedScenes is a copy of newScenes
SceneRenderRejectE(sceneId) ==
    /\ variant = "AppScenes"
    /\ renderCall[sceneId].pc = "initiateVideoRender"
    /\ WriteScenes(PatchedCopy(captured.calls[sceneId], sceneId, [ renderStatus |-> "FAILED" ]))
    /\ Commit(display.renderLogs)
    /\ renderCall' = [ renderCall EXCEPT ![sceneId] = IdleCall ]
    /\ captured' = [ captured EXCEPT !.calls[sceneId] = NoPlan ]
    /\ lastEvent' = Ev("SceneRenderReject", sceneId)
    /\ UNCHANGED << variant, queueVars, withRetryCall, pollLog, scenePolls >>

\* window.setInterval(run, 8000) of a polling scene fires: run, which closed
\* over the plan of the effect that set the interval, issues a poll
SceneTickE(sceneId) ==
    /\ variant = "AppScenes"
    /\ display.timers[sceneId] > 0
    /\ Total(scenePolls, MaxScenes) < MaxCapturedPolls
    /\ captured' = [ captured EXCEPT !.polls[sceneId] = Append(@, scene_map) ]
    /\ scenePolls' = Awaiting(captured'.polls)
    /\ lastEvent' = Ev("SceneTick", sceneId)
    /\ UNCHANGED << variant, queueVars, withRetryCall, pollLog, scene_map, renderCall,
                    written, display >>

\* the body of run after await pollVideoAdStatus(scene.videoOperation), for
\* the i-th of the polls of the scene that await their response
ScenePollResponseE(sceneId, i) ==
    /\ variant = "AppScenes"
    /\ i \in DOMAIN captured.polls[sceneId]
    /\ captured' = [ captured EXCEPT !.polls[sceneId] = Without(@, i) ]
    /\ scenePolls' = Awaiting(captured'.polls)
    /\ LET plan == captured.polls[sceneId][i]
       IN  \E status \in PollAnswers :
             CASE status = "running" ->
                     /\ WriteScenes(PatchedCopy(plan, sceneId, [ videoOperation |-> "running" ]))
                     /\ Commit([ display.renderLogs EXCEPT ![sceneId] =
                                   Slice3([ length |-> @.length + 1, last |-> "text" ]) ])
               [] status = "done" ->
                     /\ LET patch == [ renderStatus |-> "COMPLETED", videoUrl |-> "uri",
                                       videoOperation |-> "done" ]
                        IN  WriteScenes(PatchedCopy(plan, sceneId, patch))
                     /\ Commit(LogAppend(display.renderLogs, sceneId, "text"))
               [] OTHER ->
                     /\ WriteScenes(PatchedCopy(plan, sceneId, [ renderStatus |-> "FAILED" ]))
                     /\ Commit(display.renderLogs)
    /\ lastEvent' = Ev("ScenePollResponse", sceneId)
    /\ UNCHANGED << variant, queueVars, withRetryCall, pollLog, renderCall >>

InitEmbedded == variant = "AppScenes" /\ InitCommon

NextEmbedded ==
    \/ \E sceneId \in SceneIds : RenderSceneE(sceneId)
    \/ \E sceneId \in SceneIds : SceneVoiceSettleE(sceneId)
    \/ \E sceneId \in SceneIds : SceneRenderStartE(sceneId)
    \/ \E sceneId \in SceneIds : SceneRenderRejectE(sceneId)
    \/ \E sceneId \in SceneIds : SceneTickE(sceneId)
    \/ \E sceneId \in SceneIds : \E i \in 1..MaxCapturedPolls : ScenePollResponseE(sceneId, i)

SpecEmbedded == InitEmbedded /\ [][NextEmbedded]_vars

\* no handleRenderScene call is running, no poll is awaited, no timer is set
Finished ==
    /\ \A s \in SceneIds : renderCall[s].pc = "idle" /\ scenePolls[s] = 0
    /\ pollingScenes(scene_map) = {}

----------------------------------------------------------------------------
(* Properties of the admission of jobs                                     *)

InSetup(i) == i.status \in { "INITIATING", "GENERATING" }

\* C1: at most one job of the queue is INITIATING (GENERATING in src/App.tsx).
C1_SingleFlight ==
    Cardinality({ k \in DOMAIN queue : InSetup(queue[k]) }) <= 1

C1_Witness ==
    /\ \E k \in DOMAIN queue : InSetup(queue[k])
    /\ \E k \in DOMAIN queue : queue[k].status = "PENDING"
    /\ \E k \in DOMAIN queue : queue[k].status \in { "COMPLETED", "FAILED", "POLLING" }

\* C9: a job that a step admits precedes, in submission order, every job
\* that is PENDING after the step, and the queue stays in submission order
\* (a retried job is where it was submitted).
C9_FifoAdmission ==
    /\ [] (\A k, m \in DOMAIN queue : k < m => queue[k].id < queue[m].id)
    /\ [][ \A k \in DOMAIN queue' :
              (variant = "App" /\ queue'[k].status = "GENERATING"
                 /\ StatusOf(queue'[k].id) # "GENERATING")
              => \A m \in DOMAIN queue' :
                    queue'[m].status = "PENDING" => queue'[k].id < queue'[m].id ]_vars

\* a retried job (its old error is kept) is generated from its place at the
\* head while a job submitted later waits, and a third job has been served
C9_Witness ==
    /\ variant = "App"
    /\ Len(queue) = 3
    /\ queue[1].status = "GENERATING" /\ queue[1].error # Undefined
    /\ queue[2].status \in { "COMPLETED", "FAILED" }
    /\ queue[3].status = "PENDING"

----------------------------------------------------------------------------
(* Properties of the sub-tasks                                             *)

\* the video sub-task of the job failed
VideoFailed(id) ==
    \/ task[id].video \in { "rejected", "exhausted" }
    \/ variant = "part_011" /\ remote[id] \in { "error", "nouri", "novideo" }

\* the video sub-task of the job delivered its result
VideoDelivered(i) ==
    \/ variant = "App" /\ task[i.id].pc = "returned"
          /\ task[i.id].video \notin { "rejected", "exhausted" }
    \/ variant = "part_011" /\ i.operationName # 0 /\ i.id \notin pollingIntervals
          /\ remote[i.id] = "ok"

\* C6: a job whose voice synthesis failed is FAILED only if its video
\* sub-task failed, is COMPLETED once the video is delivered, and is then
\* COMPLETED with the video and with audioUrl null.
C6_VoiceFailureDegrades ==
    \A k \in DOMAIN queue :
        task[queue[k].id].voice = "fail" =>
            /\ queue[k].status = "FAILED" => VideoFailed(queue[k].id)
            /\ VideoDelivered(queue[k]) => queue[k].status = "COMPLETED"
            /\ queue[k].status = "COMPLETED" =>
                  /\ queue[k].audioUrl = "null"
                  /\ queue[k].videoUrl \notin { Undefined, "" }

C6_Witness ==
    \E k \in DOMAIN queue :
        /\ task[queue[k].id].voice = "fail"
        /\ VideoDelivered(queue[k])
        /\ queue[k].status = "COMPLETED"
        /\ queue[k].audioUrl = "null"

\* C7 as stated: a COMPLETED job has the video URI of an operation that
\* reported done without error.
C7_CompletedHasVideoUri ==
    \A k \in DOMAIN queue :
        queue[k].status = "COMPLETED" => queue[k].videoUrl \in { "uri&key", "uri?key" }

\* C8 as stated: when the poll loop gives up on an operation that never
\* reports done, the job is FAILED with an error that tells of the timeout
\* (and not the error of reading the video of an unfinished operation).
C8_CeilingReportsTimeout ==
    \A k \in DOMAIN queue :
        task[queue[k].id].video = "exhausted" =>
            /\ queue[k].status = "FAILED"
            /\ queue[k].error # "Cannot read properties of undefined"

----------------------------------------------------------------------------
(* Progress of the queue of src/App.tsx and of the processPlan App: every  *)
(* generation call that was started settles (weak fairness of the steps    *)
(* that settle videoTask, audioTask and generateAdPlan); the user and the  *)
(* scheduler of the thumbnails are not obliged to do anything.             *)

InitLive == InitA \/ InitC

NextLive == NextA \/ NextC

SpecLive ==
    /\ InitLive
    /\ [][NextLive]_vars
    /\ WF_vars(\E id \in JobIds : GenVideoSettle(id))
    /\ WF_vars(\E id \in JobIds : GenVoiceSettle(id))
    /\ WF_vars(\E id \in JobIds : PlanResolveC(id) \/ PlanRejectC(id))

Pending(id) == StatusOf(id) = "PENDING"

\* a step of the retry button: a FAILED job is PENDING again, or admitted at once
RetryStep ==
    \E id \in JobIds :
        /\ StatusOf(id) = "FAILED"
        /\ StatusOf(id)' \in { "PENDING", "GENERATING", "INITIATING" }

\* C11: when the user stops putting failed jobs back into the queue, every
\* PENDING job is admitted (or removed by the user) with no further step of
\* the user, the end of each generation call admitting the next PENDING job:
\* again and again no job of the queue is PENDING.
C11_PendingEventuallyAdmitted ==
    (<>[][~RetryStep]_vars) => []<>(\A id \in JobIds : ~Pending(id))

\* a job was admitted by the failure of the job before it
C11_Witness ==
    /\ variant \in { "App", "processPlan" }
    /\ Len(queue) >= 2
    /\ queue[1].status = "FAILED"
    /\ InSetup(queue[2])
    /\ \A k \in DOMAIN queue : queue[k].status # "PENDING"

----------------------------------------------------------------------------
(* Failed polls of src/unnamed/part_011                                    *)

\* C12 as stated: a poll of a POLLING job that fails with a quota failure
\* (pollVideoAdStatus throws on the 429 response) moves the job to
\* QUOTA_WAIT with the same operation handle.
C12_QuotaFailureEntersQuotaWait ==
    [][ \A id \in JobIds :
            (PollThrow(id) /\ StatusOf(id) = "POLLING")
                => /\ StatusOf(id)' = "QUOTA_WAIT"
                   /\ Item(queue', id).operationName = Item(queue, id).operationName ]_vars

----------------------------------------------------------------------------
(* A permanent failure of the video sub-task                               *)

\* the rejection of generateVideoAd for a key the service does not know
InvalidKeyRejection == [ ok |-> FALSE, value |-> "Requested entity was not found", how |-> "rejected" ]

\* the step in which the video sub-task of job id fails with it
PermanentVideoFailure(id) ==
    \/ GenVideoSettleAs(id, InvalidKeyRejection)
    \/ VideoStartRejectAs(id, "Requested entity was not found")

\* the step ends the call for job id as FAILED and calls handleSelectKey
FailsAndPrompts(id) ==
    /\ StatusOf(id)' = "FAILED"
    /\ task'[id].pc = "returned"
    /\ lastEvent' = [ op |-> "handleSelectKey", id |-> id ]

\* C13: a video sub-task that fails with 'Requested entity was not found'
\* leaves the job FAILED with its processQueue call over (nothing is retried)
\* and handleSelectKey called once, without await, by the step of the catch.
C13_PermanentFailurePromptsOnce ==
    [][ \A id \in JobIds : PermanentVideoFailure(id) => FailsAndPrompts(id) ]_vars

----------------------------------------------------------------------------
(* withRetry, in its three versions: src/services/geminiService.ts,        *)
(* src/unnamed/part_008 and src/unnamed/part_010.  Every caller passes fn  *)
(* alone, so retries and delay start at their defaults.  An error is what  *)
(* JSON.stringify(error).toLowerCase() contains of it.                     *)

Versions == { "geminiService.ts", "part_008", "part_010" }

\* (fn, retries = 10, delay = 5000), (fn, retries = 2, currentDelay = 5000),
\* (fn, retries = 5, delay = 3000)
Defaults(version) ==
    CASE version = "geminiService.ts" -> [ retries |-> 10, delay |-> 5000 ]
      [] version = "part_008"         -> [ retries |-> 2, delay |-> 5000 ]
      [] version = "part_010"         -> [ retries |-> 5, delay |-> 3000 ]

ErrorStrs == { "503", "overloaded", "unavailable", "429", "rate limit", "504", "deadline",
               "internal error", "resource_exhausted", "not found", "{}" }

\* isRetryable / isQuotaError
isRetryable(version, errorStr) ==
    CASE version = "geminiService.ts" ->
            errorStr \in { "503", "overloaded", "unavailable", "429", "rate limit", "504",
                           "deadline", "internal error" }
      [] version = "part_008" -> errorStr \in { "429", "resource_exhausted" }
      [] version = "part_010" ->
            errorStr \in { "503", "overloaded", "unavailable", "429", "rate limit", "504",
                           "deadline" }

\* a delay that shrinks from one wait to the next
BackoffHalves(version, delay) == delay \div 2

\* Math.floor(delay * 1.5), currentDelay * 2
Backoff(version, delay) ==
    IF version = "part_008" THEN delay * 2 ELSE (delay * 3) \div 2

\* return await fn() resolves
FnResolve ==
    /\ variant = "withRetry"
    /\ withRetryCall.pc = "fn"
    /\ withRetryCall' = [ withRetryCall EXCEPT !.pc = "resolved" ]
    /\ lastEvent' = Ev("FnResolve", 0)
    /\ UNCHANGED << variant, queueVars, sceneVars, pollLog >>

\* fn() rejects: wait if (retries > 0 && isRetryable), else throw error
FnReject(errorStr) ==
    /\ variant = "withRetry"
    /\ withRetryCall.pc = "fn"
    /\ withRetryCall' =
          [ withRetryCall EXCEPT
              !.error = errorStr,
              !.pc = IF withRetryCall.retries > 0 /\ isRetryable(withRetryCall.version, errorStr)
                     THEN "setTimeout" ELSE "thrown" ]
    /\ lastEvent' = Ev("FnReject", 0)
    /\ UNCHANGED << variant, queueVars, sceneVars, pollLog >>

\* the timer of the wait fires: return withRetry(fn, retries - 1, next delay)
RetryAfterWait ==
    /\ variant = "withRetry"
    /\ withRetryCall.pc = "setTimeout"
    /\ withRetryCall' =
          [ withRetryCall EXCEPT
              !.waits = Append(@, withRetryCall.delay),
              !.retries = @ - 1,
              !.delay = Backoff(withRetryCall.version, @),
              !.pc = "fn" ]
    /\ lastEvent' = Ev("RetryAfterWait", 0)
    /\ UNCHANGED << variant, queueVars, sceneVars, pollLog >>

InitRetry ==
    /\ variant = "withRetry"
    /\ InitComponents
    /\ pollLog = [ on |-> FALSE, calls |-> NoPolls, answered |-> NoAnswer, threw |-> NoAnswer,
                   timers |-> NoPolls ]
    /\ \E version \in Versions :
          withRetryCall = [ version |-> version, retries |-> Defaults(version).retries,
                            delay |-> Defaults(version).delay, pc |-> "fn",
                            error |-> "", waits |-> << >> ]

NextRetry ==
    \/ FnResolve
    \/ \E errorStr \in ErrorStrs : FnReject(errorStr)
    \/ RetryAfterWait

SpecRetry == InitRetry /\ [][NextRetry]_vars

\* the waits made so far never get shorter
WaitsNonDecreasing ==
    \A i, j \in DOMAIN withRetryCall.waits :
        i <= j => withRetryCall.waits[i] <= withRetryCall.waits[j]

\* fn was called again no more often than the retries the call started with
RetriesWithinCeiling ==
    /\ Len(withRetryCall.waits) + withRetryCall.retries = Defaults(withRetryCall.version).retries
    /\ withRetryCall.retries >= 0

\* a failure with no retry left is thrown to the caller as it is
LastFailureRethrown ==
    \A errorStr \in ErrorStrs :
        (FnReject(errorStr) /\ withRetryCall.retries = 0)
            => withRetryCall'.pc = "thrown" /\ withRetryCall'.error = errorStr

\* C14: in every version of withRetry the successive waits are non-decreasing,
\* fn is re-invoked at most `retries` times, and the failure that follows the
\* last allowed retry is rethrown to the caller.
C14_BackoffMonotoneAndBounded ==
    /\ [](variant = "withRetry" => WaitsNonDecreasing /\ RetriesWithinCeiling)
    /\ [][LastFailureRethrown]_vars

\* all retries were used on failures of one retryable class and the next
\* failure was thrown
C14_Witness ==
    /\ variant = "withRetry"
    /\ withRetryCall.pc = "thrown"
    /\ withRetryCall.error = "429"
    /\ Len(withRetryCall.waits) = Defaults(withRetryCall.version).retries
    /\ Len(withRetryCall.waits) >= 2

----------------------------------------------------------------------------
(* Manual retry: "Retry Render" of src/App.tsx, "Retry Production" of the  *)
(* App of src/services/geminiService.ts.  The App of src/unnamed/part_011  *)
(* has no retry button.                                                    *)

\* the step is a retry of job id
Retried(id) == RetryA(id) \/ RetryC(id)

\* the processQueue call the effect starts for an admitted item
NewRun == { [ pc |-> "generateVideoAd", video |-> "pending", voice |-> "pending" ],
            [ pc |-> "generateAdPlan", video |-> "none", voice |-> "none" ] }

\* after the step job id waits as PENDING, or is already admitted to a run
\* that has made no call yet; it holds no operation name, timer or poll
PendingOrFreshRun(id) ==
    /\ \/ StatusOf(id)' = "PENDING" /\ task'[id].pc \in { "idle", "returned" }
       \/ InSetup(Item(queue', id)) /\ task'[id] \in NewRun
    /\ Item(queue', id).operationName = 0
    /\ id \notin pollingIntervals'
    /\ inFlight'[id] = 0

\* C15: a retry of a FAILED job leaves it PENDING (or admitted at once by the
\* queue effect) with no operation handle, and the run it gets starts anew:
\* the handle and the attempt counter are locals of that run.
C15_RetryStartsAfresh ==
    [][ \A id \in JobIds : Retried(id) => StatusOf(id) = "FAILED" /\ PendingOrFreshRun(id) ]_vars

\* a job that failed, was retried and is in its second run
C15_Witness ==
    /\ Len(queue) = 1
    /\ InSetup(queue[1])
    /\ queue[1].error \notin { Undefined, "" }
    /\ task[queue[1].id] \in NewRun

----------------------------------------------------------------------------
(* The error field                                                         *)

\* C16: the error of a job is set only while the job is FAILED.
C16_ErrorOnlyWhenFailed ==
    \A k \in DOMAIN queue : queue[k].error # Undefined => queue[k].status = "FAILED"

----------------------------------------------------------------------------
(* A permanent failure of the voice sub-task                               *)

\* the step in which generateVoiceover of job id fails
VoiceFails(id) == GenVoiceSettle(id) /\ task'[id].voice = "fail"

\* the job got its video, its voice failed: COMPLETED and no audio
CompletedWithoutAudio(i) ==
    (task[i.id].voice = "fail" /\ VideoDelivered(i))
        => i.status = "COMPLETED" /\ i.audioUrl = "null"

\* C18: when the video sub-task succeeds and the voice sub-task fails for
\* good, the job ends COMPLETED without audio, and the step in which the voice
\* fails fires one credential-refresh notification (handleSelectKey).
C18_VoiceFailureNotifies ==
    /\ [](\A k \in DOMAIN queue : CompletedWithoutAudio(queue[k]))
    /\ [][ \A id \in JobIds :
              VoiceFails(id) => lastEvent' = [ op |-> "handleSelectKey", id |-> id ] ]_vars

----------------------------------------------------------------------------
(* The polls of src/unnamed/part_011, counted, and those of AdPlanDisplay  *)

SpecPoll == (InitPoll \/ InitScene) /\ [][NextB \/ NextScene]_vars

\* the polls of job id that have been answered or have thrown
Concluded(id) == pollLog.calls[id] - inFlight[id]

\* every poll of job id that has come back has thrown
AllPollsThrew(id) == pollLog.threw[id] /\ ~pollLog.answered[id]

\* C17: a job whose polls all fail with 429 is FAILED once three of them
\* have failed.
C17_QuotaExhaustionFails ==
    \A k \in DOMAIN queue :
        (AllPollsThrew(queue[k].id) /\ Concluded(queue[k].id) >= 3)
            => queue[k].status = "FAILED"

\* the step in which the third poll of job id comes back, with the video,
\* after two that were answered not done
ThirdPollSucceeds(id) ==
    /\ PollResponse(id)
    /\ pollLog.on
    /\ Concluded(id) = 2
    /\ ~pollLog.threw[id]
    /\ id \in pollingIntervals
    /\ StatusOf(id) = "POLLING"
    /\ remote[id] = "ok"

\* C19: when the third poll of a job is the first to be answered done, with
\* the video, the job is COMPLETED with its result, its timer is cleared and
\* three polls have been issued for it, however the responses and the ticks
\* of the timer interleave.
C19_ExactlyThreePolls ==
    [][ \A id \in JobIds :
            ThirdPollSucceeds(id)
                => /\ StatusOf(id)' = "COMPLETED"
                   /\ Item(queue', id).videoUrl = "uri?key"
                   /\ id \notin pollingIntervals'
                   /\ pollLog.calls[id] = 3 ]_vars

\* what a done poll can report
TerminalStatuses == { pollVideoAdStatus(op) : op \in { "ok", "error", "nouri", "novideo" } }

\* merging a done response into the queue a second time changes nothing
MergeIdempotent ==
    \A id \in Ids(queue) : \A status \in TerminalStatuses :
        PollMerge(PollMerge(queue, id, status), id, status) = PollMerge(queue, id, status)

\* the same for the scene patches of AdPlanDisplay
ScenePatchIdempotent ==
    \A sceneId \in SceneIds :
        LET done == [ renderStatus |-> "COMPLETED", videoUrl |-> "uri", videoOperation |-> "done" ]
            failed == [ renderStatus |-> "FAILED" ]
        IN  /\ ScenePatch(ScenePatch(scene_map, sceneId, done), sceneId, done)
                  = ScenePatch(scene_map, sceneId, done)
            /\ ScenePatch(ScenePatch(scene_map, sceneId, failed), sceneId, failed)
                  = ScenePatch(scene_map, sceneId, failed)

\* the step applies a done response to job id after an earlier one has
\* cleared the timer of the job
SecondTerminalResponse(id) ==
    /\ PollResponse(id)
    /\ pollVideoAdStatus(remote[id]).done
    /\ id \notin pollingIntervals

\* C20: a done poll result applied a second time leaves the queue and the
\* timer table as the first application left them: no result is doubled, the
\* second clearInterval and delete do nothing.
C20_TerminalMergeIdempotent ==
    /\ [](MergeIdempotent /\ ScenePatchIdempotent)
    /\ [][ \A id \in JobIds :
              SecondTerminalResponse(id)
                  => queue' = queue /\ pollingIntervals' = pollingIntervals ]_vars

\* a second done response has been applied to a COMPLETED job
C20_Witness ==
    \E id \in JobIds :
        /\ lastEvent = [ op |-> "PollDoneAgain", id |-> id ]
        /\ StatusOf(id) = "COMPLETED"
        /\ Item(queue, id).videoUrl = "uri?key"
        /\ id \notin pollingIntervals

----------------------------------------------------------------------------
(* Timers of waiting handles                                               *)

----------------------------------------------------------------------------
(* The voice sub-task and the progress of the job                          *)

\* videoTask of generateVideoAd has resolved with the video of job id while
\* Promise.all is still pending
VideoAvailable(id) ==
    /\ variant = "App"
    /\ task[id].pc = "generateVideoAd"
    /\ task[id].video \in { "uri&key", "undefined&key" }

\* initiateVideoRender has resolved with the operation of job id while
\* Promise.all is still pending
VideoStarted(id) ==
    /\ variant = "part_011"
    /\ task[id].pc = "PromiseAll"
    /\ task[id].video = "resolved"

\* C22: the job does not wait for the voice: once its video result is there
\* it is COMPLETED, and once its video operation has been started it is
\* polled, whether or not the voice has finished.
C22_VoiceNeverGatesProgress ==
    \A id \in Ids(queue) :
        /\ VideoAvailable(id) => StatusOf(id) = "COMPLETED"
        /\ VideoStarted(id) => id \in pollingIntervals

----------------------------------------------------------------------------
(* The jobs of the queue and their order                                   *)

\* the ids of the queue, in its order
IdsInOrder(q) == [ k \in DOMAIN q |-> q[k].id ]

\* a is an initial part of b
IsPrefix(a, b) == Len(a) <= Len(b) /\ SubSeq(b, 1, Len(a)) = a

\* the step is the remove button of job id
Removes(id) == RemoveA(id) \/ RemoveB(id) \/ RemoveC(id)

\* C23: only the remove button takes a job out of the queue, and it takes
\* out that job alone; every other step keeps the jobs and their order, and
\* a submission adds its job at the end.
C23_NoSilentEviction ==
    [][ /\ (\A id \in JobIds : ~Removes(id))
              => IsPrefix(IdsInOrder(queue), IdsInOrder(queue'))
        /\ \A id \in JobIds :
              Removes(id) => IdsInOrder(queue') = IdsInOrder(FilterOut(queue, id)) ]_vars

\* two jobs are in the queue in the order of their submission, the first
\* FAILED and the second COMPLETED
C23_Witness ==
    /\ Len(queue) >= 2
    /\ queue[1].id < queue[2].id
    /\ queue[1].status = "FAILED"
    /\ queue[2].status = "COMPLETED"

----------------------------------------------------------------------------
(* Polls that throw                                                        *)

\* C24: a poll of a POLLING job or scene that throws is handled: the job is
\* FAILED or waits for the rescheduled poll, the scene is FAILED; neither is
\* left POLLING as if the poll had not failed.
C24_PollFailureResolved ==
    [][ /\ \A id \in JobIds :
              (PollThrow(id) /\ id \in Ids(queue) /\ StatusOf(id) = "POLLING")
                  => StatusOf(id)' \in { "FAILED", "QUOTA_WAIT" }
        /\ \A sceneId \in SceneIds :
              (ScenePollResponseAs(sceneId, "throws")
                 /\ scene_map[sceneId].renderStatus = "POLLING")
                  => scene_map'[sceneId].renderStatus = "FAILED" ]_vars

----------------------------------------------------------------------------
(* Terminal statuses                                                       *)

----------------------------------------------------------------------------
(* The number of timers of a handle                                        *)

\* C26: a job never has more than one live interval, and has one exactly
\* while the table pollingIntervals holds it; a scene of AdPlanDisplay never
\* has more than one either, however often the effects run again.
C26_AtMostOneTimer ==
    /\ pollLog.on =>
          \A id \in JobIds :
              pollLog.timers[id] = (IF id \in pollingIntervals THEN 1 ELSE 0)
    /\ \A sceneId \in SceneIds : display.timers[sceneId] <= 1

\* two jobs are polled, each with its one interval: the effect that set the
\* timer of the second ran over the first, which had its timer already
C26_Witness ==
    /\ pollLog.on
    /\ Len(queue) = 2
    /\ \A k \in DOMAIN queue :
          /\ queue[k].status = "POLLING"
          /\ queue[k].id \in pollingIntervals
          /\ pollLog.timers[queue[k].id] = 1

----------------------------------------------------------------------------
(* Sibling scenes in the AdPlanDisplay of src/App.tsx                      *)

\* the step writes an update of scene sceneId
WritesScene(sceneId) ==
    \/ RenderSceneE(sceneId)
    \/ SceneRenderStartE(sceneId)
    \/ SceneRenderRejectE(sceneId)
    \/ \E i \in 1..MaxCapturedPolls : ScenePollResponseE(sceneId, i)

\* C27: an update written for one scene leaves renderStatus, videoOperation
\* and videoUrl of every other scene as the latest update of that scene
\* left them, whatever the plan was when the updating task started.
C27_SiblingNotOverwritten ==
    [][ \A sceneId \in SceneIds :
            WritesScene(sceneId) =>
                \A sibling \in SceneIds \ { sceneId } :
                    /\ scene_map'[sibling].renderStatus = scene_map[sibling].renderStatus
                    /\ scene_map'[sibling].videoOperation = scene_map[sibling].videoOperation
                    /\ scene_map'[sibling].videoUrl = scene_map[sibling].videoUrl ]_vars

----------------------------------------------------------------------------
(* A setup that fails                                                      *)

\* the step in which generateAdPlan of job id rejects
SetupFails(id) == PlanReject(id) \/ PlanRejectC(id)

\* C28: when the plan generation of an admitted job fails the job goes from
\* INITIATING to FAILED, it gets no operation name and no timer, and the
\* lock is given back: the first PENDING job, if there is one, is admitted
\* in the same commit.
C28_SetupFailureFails ==
    [][ \A id \in JobIds :
            (SetupFails(id) /\ id \in Ids(queue)) =>
                /\ StatusOf(id) = "INITIATING"
                /\ StatusOf(id)' = "FAILED"
                /\ Item(queue', id).operationName = 0
                /\ id \notin pollingIntervals'
                /\ IF FindPending(queue) = 0
                   THEN ~processingRef'
                   ELSE Item(queue', FindPending(queue)).status = "INITIATING" ]_vars

\* a job whose setup failed is FAILED without plan or operation, and the job
\* submitted after it has been admitted
C28_Witness ==
    /\ Len(queue) = 2
    /\ queue[1].status = "FAILED"
    /\ ~queue[1].plan
    /\ queue[1].operationName = 0
    /\ queue[1].id \notin pollingIntervals
    /\ queue[2].status = "INITIATING"
    /\ processingRef

----------------------------------------------------------------------------
(* The length of renderLogs                                                *)

----------------------------------------------------------------------------
(* processingId of src/App.tsx                                             *)

\* processingId is set exactly when a job is GENERATING, and names that job
LockMatches ==
    /\ processingId = 0 <=> ~\E k \in DOMAIN queue : queue[k].status = "GENERATING"
    /\ \A k \in DOMAIN queue : queue[k].status = "GENERATING" => processingId = queue[k].id

\* C30: in src/App.tsx processingId is non-null exactly when a job is
\* GENERATING and is then the id of that job, which is in the queue; a job
\* leaves GENERATING only as COMPLETED or FAILED, never by removal, and
\* processingId no longer names it afterwards.
C30_LockMatchesProducer ==
    /\ [](variant = "App" => LockMatches)
    /\ [][ \A id \in JobIds :
              (variant = "App" /\ StatusOf(id) = "GENERATING" /\ StatusOf(id)' # "GENERATING")
                  => /\ StatusOf(id)' \in { "COMPLETED", "FAILED" }
                     /\ processingId' # id ]_vars

\* one job has failed and one has completed, processingId is null again
C30_Witness ==
    /\ variant = "App"
    /\ processingId = 0
    /\ \E k \in DOMAIN queue : queue[k].status = "FAILED"
    /\ \E k \in DOMAIN queue : queue[k].status = "COMPLETED"

============================================================================
